---- MODULE Spec2Model ----
(***************************************************************************)
(* The MovieProvider store of src/src/contexts/MovieContext.tsx: the React *)
(* state it owns, the browser's localStorage it writes through to, the     *)
(* requests it has handed to axios that have not been answered yet, and    *)
(* one action per handler.  A handler that awaits api.get is two steps:    *)
(* the synchronous part up to the await, and the continuation that runs    *)
(* when the response (or the failure) arrives.                             *)
(***************************************************************************)
EXTENDS Naturals, Sequences, FiniteSets, TLC

VARIABLES
    trendingMovies,   \* useState<Movie[]>([])
    searchResults,    \* useState<Movie[]>([])
    favorites,        \* useState<Movie[]>, loaded from localStorage
    searchQuery,      \* useState<string>, loaded from localStorage
    isLoading,        \* useState<boolean>(false)
    error,            \* useState<string | null>(null)
    currentPage,      \* useState<number>(1)
    totalPages,       \* useState<number>(1)
    currentFilters,   \* useState<FilterOptions>
    localStorage,     \* the browser store: a function from the keys present to their strings
    inflight,         \* the api.get calls awaiting their response
    nextId,           \* the number of the next request handed to axios
    mounted,          \* whether the initialisation effect has run
    last              \* the handler or continuation that ran last, with its arguments

stateVars == <<trendingMovies, searchResults, favorites, searchQuery, isLoading, error,
               currentPage, totalPages, currentFilters>>

vars == <<trendingMovies, searchResults, favorites, searchQuery, isLoading, error,
          currentPage, totalPages, currentFilters, localStorage, inflight, nextId,
          mounted, last>>

----------------------------------------------------------------------------
(* Bounds of the model. *)

\* Pages a caller asks for and a response reports range over 1..MaxPage.
MaxPage == 2

\* The store hands at most MaxRequests list requests to axios in one run.
MaxRequests == 3

----------------------------------------------------------------------------
(* Values. *)

\* Two movies with the same id and different content, and one with another id.
MovieA == [id |-> 1, title |-> "A"]

MovieA2 == [id |-> 1, title |-> "A2"]

MovieB == [id |-> 2, title |-> "B"]

Movies == {MovieA, MovieA2, MovieB}

MovieIds == {m.id : m \in Movies}

\* string | null: the null of `error`.
Null == "<null>"

TrendingFailedMessage == "Failed to fetch trending movies. Please try again later."

SearchFailedMessage == "Failed to find movies. Please try again later."

\* An argument the caller left out.
Undefined == [undefined |-> TRUE]

EmptyFilters == [genre |-> "", year |-> "", minRating |-> ""]

SomeFilters == [genre |-> "28", year |-> "", minRating |-> "7"]

\* The filters argument of a call: left out, or a FilterOptions.
FilterArgs == {Undefined, SomeFilters}

\* A string is the sequence of its characters.
Whitespace == {" "}

Queries == {<<>>, <<" ">>, <<" ", " ">>, <<"a">>, <<" ", "b">>}

\* What localStorage may hold under 'lastSearch' when the page loads.
StoredSearches == {<<>>, <<" ">>, <<"a">>}

\* The favourites localStorage may hold when the page loads: written by an
\* earlier session of this store, or by anything else of the same origin.
StoredFavorites == {<<>>, <<MovieA>>, <<MovieB, MovieA>>, <<MovieA, MovieA2>>}

\* The bodies a successful list response may carry; `results` may be missing.
ResultLists == {<<MovieB, MovieA>>}

ResponseBodies ==
    [results : ResultLists, page : 1..MaxPage, total_pages : 1..MaxPage]
        \cup [page : 1..MaxPage, total_pages : 1..MaxPage]

----------------------------------------------------------------------------
(* JSON.stringify and JSON.parse of a Movie[], as the sequence of tokens of *)
(* the text.                                                                *)

Digits == <<"1", "2", "3">>

NumberToken(n) == Digits[n]

TokenNumber(t) == CHOOSE n \in 1..Len(Digits) : Digits[n] = t

StringifyMovie(m) == <<"{", NumberToken(m.id), m.title, "}">>

RECURSIVE StringifyItems(_)
StringifyItems(s) ==
    IF s = <<>> THEN <<>>
    ELSE IF Len(s) = 1 THEN StringifyMovie(s[1])
    ELSE StringifyMovie(s[1]) \o <<",">> \o StringifyItems(Tail(s))

JSONstringify(s) == <<"[">> \o StringifyItems(s) \o <<"]">>

RECURSIVE ParseItems(_)
ParseItems(t) ==
    IF t[1] = "]" THEN <<>>
    ELSE IF t[1] = "," THEN ParseItems(Tail(t))
    ELSE <<[id |-> TokenNumber(t[2]), title |-> t[3]]>> \o ParseItems(SubSeq(t, 5, Len(t)))

JSONparse(t) == ParseItems(Tail(t))

----------------------------------------------------------------------------
(* localStorage. *)

HasItem(store, key) == key \in DOMAIN store

SetItem(store, key, value) ==
    [k \in DOMAIN store \cup {key} |-> IF k = key THEN value ELSE store[k]]

RemoveItem(store, key) == [k \in DOMAIN store \ {key} |-> store[k]]

\* The stores the page may find: each key absent or holding one of its values.
InitialStores ==
    LET favs  == {<<>>} \cup {<<JSONstringify(f)>> : f \in StoredFavorites}
        srch  == {<<>>} \cup {<<q>> : q \in StoredSearches}
    IN  { [k \in (IF f = <<>> THEN {} ELSE {"favorites"})
                    \cup (IF q = <<>> THEN {} ELSE {"lastSearch"})
             |-> IF k = "favorites" THEN f[1] ELSE q[1]] : f \in favs, q \in srch }

\* useState initialiser of favorites: saved ? JSON.parse(saved) : []
InitialFavorites(store) ==
    IF HasItem(store, "favorites") /\ store["favorites"] # <<>>
    THEN JSONparse(store["favorites"])
    ELSE <<>>

\* useState initialiser of searchQuery: localStorage.getItem('lastSearch') || ''
InitialSearchQuery(store) ==
    IF HasItem(store, "lastSearch") THEN store["lastSearch"] ELSE <<>>

----------------------------------------------------------------------------
(* Pure parts of the handlers. *)

\* query.trim()
RECURSIVE TrimStart(_)
TrimStart(q) ==
    IF q # <<>> /\ q[1] \in Whitespace THEN TrimStart(Tail(q)) ELSE q

RECURSIVE TrimEnd(_)
TrimEnd(q) ==
    IF q # <<>> /\ q[Len(q)] \in Whitespace THEN TrimEnd(SubSeq(q, 1, Len(q) - 1)) ELSE q

Trim(q) == TrimEnd(TrimStart(q))

\* IsBlank without the trim: only the empty string is refused.
IsBlankUntrimmed(query) == query = <<>>

\* !query.trim()
IsBlank(query) == Trim(query) = <<>>

\* params.name = value
SetParam(params, name, value) ==
    [n \in DOMAIN params \cup {name} |-> IF n = name THEN value ELSE params[n]]

\* WithFilters without the tests of the fields: every field of a filter is sent.
WithFiltersSendsEmpty(params, filters) ==
    IF filters = Undefined THEN params
    ELSE SetParam(SetParam(SetParam(params, "with_genres", filters.genre),
                           "primary_release_year", filters.year),
                  "vote_average_gte", filters.minRating)

\* if (filters) { if (filters.genre) ...; if (filters.year) ...; if (filters.minRating) ... }
WithFilters(params, filters) ==
    IF filters = Undefined THEN params
    ELSE LET p1 == IF filters.genre # "" THEN SetParam(params, "with_genres", filters.genre)
                   ELSE params
             p2 == IF filters.year # "" THEN SetParam(p1, "primary_release_year", filters.year)
                   ELSE p1
         IN  IF filters.minRating # "" THEN SetParam(p2, "vote_average_gte", filters.minRating)
             ELSE p2

TrendingRequest(id, page, filters) ==
    [id |-> id, kind |-> "trending", url |-> "/trending/movie/day", query |-> <<>>,
     page |-> page, filters |-> filters,
     params |-> WithFilters([page |-> page], filters)]

SearchRequest(id, query, page, filters) ==
    [id |-> id, kind |-> "search", url |-> "/search/movie", query |-> query,
     page |-> page, filters |-> filters,
     params |-> WithFilters([query |-> query, page |-> page, include_adult |-> FALSE],
                            filters)]

\* response.data.results || []
ResultsOf(data) == IF "results" \in DOMAIN data THEN data.results ELSE <<>>

\* ApplyPage without the test of the page: every page is appended.
ApplyPageAlwaysAppends(prev, page, movies) == prev \o movies

\* if (page === 1) set(movies); else set(prev => [...prev, ...movies])
ApplyPage(prev, page, movies) == IF page = 1 THEN movies ELSE prev \o movies

\* filters || { genre: '', year: '', minRating: '' }
FiltersOrEmpty(filters) == IF filters = Undefined THEN EmptyFilters ELSE filters

\* HasMore off by one: the last page still has a next one.
HasMoreInclusive == currentPage <= totalPages

\* currentPage < totalPages
HasMore == currentPage < totalPages

\* prev.some(m => m.id === id)
SomeId(list, id) == \E i \in 1..Len(list) : list[i].id = id

\* prev.filter(m => m.id !== id)
RECURSIVE FilterOutId(_, _)
FilterOutId(list, id) ==
    IF list = <<>> THEN <<>>
    ELSE IF list[1].id # id THEN <<list[1]>> \o FilterOutId(Tail(list), id)
    ELSE FilterOutId(Tail(list), id)

----------------------------------------------------------------------------
(* The state after the component's first render: every useState holds its   *)
(* initial value, and the effect has not run yet.                           *)

Init ==
    /\ localStorage \in InitialStores
    /\ trendingMovies = <<>>
    /\ searchResults = <<>>
    /\ favorites = InitialFavorites(localStorage)
    /\ searchQuery = InitialSearchQuery(localStorage)
    /\ isLoading = FALSE
    /\ error = Null
    /\ currentPage = 1
    /\ totalPages = 1
    /\ currentFilters = EmptyFilters
    /\ inflight = {}
    /\ nextId = 1
    /\ mounted = FALSE
    /\ last = [op |-> "init"]

----------------------------------------------------------------------------
(* The synchronous part of the two fetching handlers, up to `await api.get`. *)
(* `op` names the handler the user (or the effect) called.                   *)

\* getTrendingMovies(page, filters), lines 68-79
StartTrending(op, page, filters) ==
    /\ nextId <= MaxRequests
    /\ isLoading' = TRUE
    /\ error' = Null
    /\ inflight' = inflight \cup {TrendingRequest(nextId, page, filters)}
    /\ nextId' = nextId + 1
    /\ last' = [op |-> op, issued |-> {TrendingRequest(nextId, page, filters)}]
    /\ UNCHANGED <<trendingMovies, searchResults, favorites, searchQuery, currentPage,
                   totalPages, currentFilters, localStorage, mounted>>

\* A call that returns without doing anything.
Return(op, args) ==
    /\ last' = [op |-> op, args |-> args, issued |-> {}]
    /\ UNCHANGED <<trendingMovies, searchResults, favorites, searchQuery, isLoading, error,
                   currentPage, totalPages, currentFilters, localStorage, inflight, nextId,
                   mounted>>

\* searchMovies(query, page, filters), lines 96-115
StartSearch(op, query, page, filters) ==
    IF IsBlank(query)
    THEN Return(op, <<query>>)
    ELSE /\ nextId <= MaxRequests
         /\ isLoading' = TRUE
         /\ error' = Null
         /\ searchQuery' = query
         /\ inflight' = inflight \cup {SearchRequest(nextId, query, page, filters)}
         /\ nextId' = nextId + 1
         /\ last' = [op |-> op, args |-> <<query>>,
                     issued |-> {SearchRequest(nextId, query, page, filters)}]
         /\ UNCHANGED <<trendingMovies, searchResults, favorites, currentPage, totalPages,
                        currentFilters, localStorage, mounted>>

----------------------------------------------------------------------------
(* The handlers the context hands to the UI.  The UI exists once the         *)
(* component is mounted.                                                      *)

GetTrendingMovies(page, filters) ==
    /\ mounted
    /\ StartTrending("getTrendingMovies", page, filters)

SearchMovies(query, page, filters) ==
    /\ mounted
    /\ StartSearch("searchMovies", query, page, filters)

\* LoadMoreTrending that holds back while a load is going on.
LoadMoreTrendingExclusive ==
    /\ mounted
    /\ IF HasMore /\ ~isLoading
       THEN StartTrending("loadMoreTrending", currentPage + 1, currentFilters)
       ELSE Return("loadMoreTrending", <<>>)

LoadMoreTrending ==
    /\ mounted
    /\ IF HasMore
       THEN StartTrending("loadMoreTrending", currentPage + 1, currentFilters)
       ELSE Return("loadMoreTrending", <<>>)

\* LoadMoreResults asking for the current page again.
LoadMoreResultsSamePage ==
    /\ mounted
    /\ IF HasMore
       THEN StartSearch("loadMoreResults", searchQuery, currentPage, currentFilters)
       ELSE Return("loadMoreResults", <<>>)

LoadMoreResults ==
    /\ mounted
    /\ IF HasMore
       THEN StartSearch("loadMoreResults", searchQuery, currentPage + 1, currentFilters)
       ELSE Return("loadMoreResults", <<>>)

\* ResetSearch that leaves the persisted query behind.
ResetSearchKeepsStored ==
    /\ mounted
    /\ searchResults' = <<>>
    /\ searchQuery' = <<>>
    /\ currentPage' = 1
    /\ currentFilters' = EmptyFilters
    /\ last' = [op |-> "resetSearch"]
    /\ UNCHANGED <<trendingMovies, favorites, isLoading, error, totalPages, inflight,
                   nextId, mounted, localStorage>>

\* ResetSearch that also abandons the searches in flight.
ResetSearchCancels ==
    /\ mounted
    /\ searchResults' = <<>>
    /\ searchQuery' = <<>>
    /\ currentPage' = 1
    /\ currentFilters' = EmptyFilters
    /\ localStorage' = RemoveItem(localStorage, "lastSearch")
    /\ inflight' = {req \in inflight : req.kind # "search"}
    /\ last' = [op |-> "resetSearch"]
    /\ UNCHANGED <<trendingMovies, favorites, isLoading, error, totalPages, nextId,
                   mounted>>

ResetSearch ==
    /\ mounted
    /\ searchResults' = <<>>
    /\ searchQuery' = <<>>
    /\ currentPage' = 1
    /\ currentFilters' = EmptyFilters
    /\ localStorage' = RemoveItem(localStorage, "lastSearch")
    /\ last' = [op |-> "resetSearch"]
    /\ UNCHANGED <<trendingMovies, favorites, isLoading, error, totalPages, inflight,
                   nextId, mounted>>

\* AddToFavorites without the membership test.
AddToFavoritesUnchecked(movie) ==
    /\ mounted
    /\ favorites' = Append(favorites, movie)
    /\ localStorage' = SetItem(localStorage, "favorites",
                               JSONstringify(Append(favorites, movie)))
    /\ last' = [op |-> "addToFavorites", movie |-> movie,
                present |-> SomeId(favorites, movie.id)]
    /\ UNCHANGED <<trendingMovies, searchResults, searchQuery, isLoading, error,
                   currentPage, totalPages, currentFilters, inflight, nextId, mounted>>

AddToFavorites(movie) ==
    /\ mounted
    /\ IF ~SomeId(favorites, movie.id)
       THEN /\ favorites' = Append(favorites, movie)
            /\ localStorage' = SetItem(localStorage, "favorites",
                                       JSONstringify(Append(favorites, movie)))
       ELSE UNCHANGED <<favorites, localStorage>>
    /\ last' = [op |-> "addToFavorites", movie |-> movie,
                present |-> SomeId(favorites, movie.id)]
    /\ UNCHANGED <<trendingMovies, searchResults, searchQuery, isLoading, error,
                   currentPage, totalPages, currentFilters, inflight, nextId, mounted>>

\* RemoveFromFavorites that persists the list it started from.
RemoveFromFavoritesStaleWrite(movieId) ==
    /\ mounted
    /\ favorites' = FilterOutId(favorites, movieId)
    /\ localStorage' = SetItem(localStorage, "favorites", JSONstringify(favorites))
    /\ last' = [op |-> "removeFromFavorites", movieId |-> movieId,
                present |-> SomeId(favorites, movieId)]
    /\ UNCHANGED <<trendingMovies, searchResults, searchQuery, isLoading, error,
                   currentPage, totalPages, currentFilters, inflight, nextId, mounted>>

\* RemoveFromFavorites that writes only when an entry was removed.
RemoveFromFavoritesLazyWrite(movieId) ==
    /\ mounted
    /\ favorites' = FilterOutId(favorites, movieId)
    /\ localStorage' = IF SomeId(favorites, movieId)
                       THEN SetItem(localStorage, "favorites",
                                    JSONstringify(FilterOutId(favorites, movieId)))
                       ELSE localStorage
    /\ last' = [op |-> "removeFromFavorites", movieId |-> movieId,
                present |-> SomeId(favorites, movieId)]
    /\ UNCHANGED <<trendingMovies, searchResults, searchQuery, isLoading, error,
                   currentPage, totalPages, currentFilters, inflight, nextId, mounted>>

RemoveFromFavorites(movieId) ==
    /\ mounted
    /\ favorites' = FilterOutId(favorites, movieId)
    /\ localStorage' = SetItem(localStorage, "favorites",
                               JSONstringify(FilterOutId(favorites, movieId)))
    /\ last' = [op |-> "removeFromFavorites", movieId |-> movieId,
                present |-> SomeId(favorites, movieId)]
    /\ UNCHANGED <<trendingMovies, searchResults, searchQuery, isLoading, error,
                   currentPage, totalPages, currentFilters, inflight, nextId, mounted>>

----------------------------------------------------------------------------
(* The continuations: what runs when axios settles the awaited promise.      *)

\* TrendingResolved that takes the page asked for as the current page.
TrendingResolvedRequestedPage(req, data) ==
    /\ req \in inflight
    /\ req.kind = "trending"
    /\ trendingMovies' = ApplyPage(trendingMovies, req.page, ResultsOf(data))
    /\ currentPage' = req.page
    /\ totalPages' = data.total_pages
    /\ currentFilters' = FiltersOrEmpty(req.filters)
    /\ isLoading' = FALSE
    /\ inflight' = inflight \ {req}
    /\ last' = [op |-> "resolved", req |-> req, data |-> data]
    /\ UNCHANGED <<searchResults, favorites, searchQuery, error, localStorage, nextId,
                   mounted>>

\* getTrendingMovies after the await, lines 80-87 and 92
TrendingResolved(req, data) ==
    /\ req \in inflight
    /\ req.kind = "trending"
    /\ trendingMovies' = ApplyPage(trendingMovies, req.page, ResultsOf(data))
    /\ currentPage' = data.page
    /\ totalPages' = data.total_pages
    /\ currentFilters' = FiltersOrEmpty(req.filters)
    /\ isLoading' = FALSE
    /\ inflight' = inflight \ {req}
    /\ last' = [op |-> "resolved", req |-> req, data |-> data]
    /\ UNCHANGED <<searchResults, favorites, searchQuery, error, localStorage, nextId,
                   mounted>>

\* TrendingRejected with a catch block that also drops the list.
TrendingRejectedClearsList(req) ==
    /\ req \in inflight
    /\ req.kind = "trending"
    /\ trendingMovies' = <<>>
    /\ error' = TrendingFailedMessage
    /\ isLoading' = FALSE
    /\ inflight' = inflight \ {req}
    /\ last' = [op |-> "rejected", req |-> req]
    /\ UNCHANGED <<searchResults, favorites, searchQuery, currentPage,
                   totalPages, currentFilters, localStorage, nextId, mounted>>

\* TrendingRejected without the finally block: the flag stays up.
TrendingRejectedKeepsLoading(req) ==
    /\ req \in inflight
    /\ req.kind = "trending"
    /\ error' = TrendingFailedMessage
    /\ inflight' = inflight \ {req}
    /\ last' = [op |-> "rejected", req |-> req]
    /\ UNCHANGED <<trendingMovies, searchResults, favorites, searchQuery, isLoading,
                   currentPage, totalPages, currentFilters, localStorage, nextId, mounted>>

\* getTrendingMovies when api.get throws, lines 88-93
TrendingRejected(req) ==
    /\ req \in inflight
    /\ req.kind = "trending"
    /\ error' = TrendingFailedMessage
    /\ isLoading' = FALSE
    /\ inflight' = inflight \ {req}
    /\ last' = [op |-> "rejected", req |-> req]
    /\ UNCHANGED <<trendingMovies, searchResults, favorites, searchQuery, currentPage,
                   totalPages, currentFilters, localStorage, nextId, mounted>>

\* SearchResolved that drops the response of a search that is no longer the
\* active one.
SearchResolvedLatestOnly(req, data) ==
    /\ req \in inflight
    /\ req.kind = "search"
    /\ IF req.query = searchQuery
       THEN /\ searchResults' = ApplyPage(searchResults, req.page, ResultsOf(data))
            /\ currentPage' = data.page
            /\ totalPages' = data.total_pages
            /\ currentFilters' = FiltersOrEmpty(req.filters)
            /\ localStorage' = SetItem(localStorage, "lastSearch", req.query)
       ELSE UNCHANGED <<searchResults, currentPage, totalPages, currentFilters,
                        localStorage>>
    /\ isLoading' = FALSE
    /\ inflight' = inflight \ {req}
    /\ last' = [op |-> "resolved", req |-> req, data |-> data]
    /\ UNCHANGED <<trendingMovies, favorites, searchQuery, error, nextId, mounted>>

\* SearchResolved with a cursor of its own: the shared counters are left to
\* the trending track.
SearchResolvedKeepsCounters(req, data) ==
    /\ req \in inflight
    /\ req.kind = "search"
    /\ searchResults' = ApplyPage(searchResults, req.page, ResultsOf(data))
    /\ localStorage' = SetItem(localStorage, "lastSearch", req.query)
    /\ isLoading' = FALSE
    /\ inflight' = inflight \ {req}
    /\ last' = [op |-> "resolved", req |-> req, data |-> data]
    /\ UNCHANGED <<trendingMovies, favorites, searchQuery, error, currentPage,
                   totalPages, currentFilters, nextId, mounted>>

\* searchMovies after the await, lines 116-125 and 130
SearchResolved(req, data) ==
    /\ req \in inflight
    /\ req.kind = "search"
    /\ searchResults' = ApplyPage(searchResults, req.page, ResultsOf(data))
    /\ currentPage' = data.page
    /\ totalPages' = data.total_pages
    /\ currentFilters' = FiltersOrEmpty(req.filters)
    /\ localStorage' = SetItem(localStorage, "lastSearch", req.query)
    /\ isLoading' = FALSE
    /\ inflight' = inflight \ {req}
    /\ last' = [op |-> "resolved", req |-> req, data |-> data]
    /\ UNCHANGED <<trendingMovies, favorites, searchQuery, error, nextId, mounted>>

\* searchMovies when api.get throws, lines 126-131
SearchRejected(req) ==
    /\ req \in inflight
    /\ req.kind = "search"
    /\ error' = SearchFailedMessage
    /\ isLoading' = FALSE
    /\ inflight' = inflight \ {req}
    /\ last' = [op |-> "rejected", req |-> req]
    /\ UNCHANGED <<trendingMovies, searchResults, favorites, searchQuery, currentPage,
                   totalPages, currentFilters, localStorage, nextId, mounted>>

----------------------------------------------------------------------------
(* The lookups getMovieDetails, getMovieCredits and getMovieVideos: each    *)
(* awaits one request and hands a value back to its caller; `last` records  *)
(* the value returned.                                                       *)

\* The value null handed back to a caller.
NullResult == [null |-> TRUE]

\* Response bodies of /movie/{id} and /movie/{id}/credits.
DetailsPayloads == {[id |-> 1, title |-> "A", runtime |-> 90]}
CreditsPayloads == {[id |-> 1, cast |-> <<"x">>]}

\* Response bodies of /movie/{id}/videos: with videos, with none, and
\* without the results field.
VideosPayloads ==
    {[id |-> 1, results |-> <<[key |-> "k"]>>], [id |-> 1, results |-> <<>>], [id |-> 1]}

\* api.get(`/movie/${movieId}`), `/movie/${movieId}/credits`, `/movie/${movieId}/videos`
LookupUrl(kind, movieId) ==
    IF kind = "details" THEN <<"/movie/", movieId>>
    ELSE IF kind = "credits" THEN <<"/movie/", movieId, "/credits">>
    ELSE <<"/movie/", movieId, "/videos">>

LookupRequest(id, kind, movieId) ==
    [id |-> id, kind |-> kind, url |-> LookupUrl(kind, movieId), movieId |-> movieId]

\* A lookup up to its await: the request goes out, the store is not touched.
StartLookup(op, kind, movieId) ==
    /\ mounted
    /\ nextId <= MaxRequests
    /\ LET req == LookupRequest(nextId, kind, movieId)
       IN  /\ inflight' = inflight \cup {req}
           /\ last' = [op |-> op, movieId |-> movieId, issued |-> {req}]
    /\ nextId' = nextId + 1
    /\ UNCHANGED <<stateVars, localStorage, mounted>>

\* A lookup after its await: axios settled with the body `data` (Undefined
\* when it threw) and the async function returns `value`.
ReturnLookup(req, kind, outcome, data, value) ==
    /\ req \in inflight
    /\ req.kind = kind
    /\ inflight' = inflight \ {req}
    /\ last' = [op |-> outcome, req |-> req, data |-> data, returned |-> value]
    /\ UNCHANGED <<stateVars, localStorage, nextId, mounted>>

GetMovieDetails(movieId) == StartLookup("getMovieDetails", "details", movieId)

\* return response.data
DetailsResolved(req, data) == ReturnLookup(req, "details", "lookupResolved", data, data)

\* DetailsRejected with the catch block of the list handlers: the failure is
\* shown in the store.
DetailsRejectedSetsError(req) ==
    /\ req \in inflight
    /\ req.kind = "details"
    /\ error' = TrendingFailedMessage
    /\ isLoading' = FALSE
    /\ inflight' = inflight \ {req}
    /\ last' = [op |-> "lookupRejected", req |-> req, data |-> Undefined,
                returned |-> NullResult]
    /\ UNCHANGED <<trendingMovies, searchResults, favorites, searchQuery, currentPage,
                   totalPages, currentFilters, localStorage, nextId, mounted>>

\* catch (err) { console.error(...); return null; }
DetailsRejected(req) == ReturnLookup(req, "details", "lookupRejected", Undefined, NullResult)

GetMovieCredits(movieId) == StartLookup("getMovieCredits", "credits", movieId)

CreditsResolved(req, data) == ReturnLookup(req, "credits", "lookupResolved", data, data)

CreditsRejected(req) == ReturnLookup(req, "credits", "lookupRejected", Undefined, NullResult)

GetMovieVideos(movieId) == StartLookup("getMovieVideos", "videos", movieId)

\* return response.data.results || []
VideosResolved(req, data) == ReturnLookup(req, "videos", "lookupResolved", data, ResultsOf(data))

\* catch (err) { console.error(...); return []; }
VideosRejected(req) == ReturnLookup(req, "videos", "lookupRejected", Undefined, <<>>)

----------------------------------------------------------------------------
(* The initialisation effect, run once after the first render:               *)
(*   getTrendingMovies(); if (searchQuery) searchMovies(searchQuery);        *)

\* Mount without the second statement of the effect: the stored search is
\* not run again.
MountTrendingOnly ==
    /\ ~mounted
    /\ mounted' = TRUE
    /\ isLoading' = TRUE
    /\ error' = Null
    /\ LET trending == TrendingRequest(nextId, 1, Undefined)
       IN  /\ inflight' = inflight \cup {trending}
           /\ nextId' = nextId + 1
           /\ last' = [op |-> "mount", issued |-> {trending}]
    /\ UNCHANGED <<trendingMovies, searchResults, favorites, searchQuery, currentPage,
                   totalPages, currentFilters, localStorage>>

Mount ==
    /\ ~mounted
    /\ mounted' = TRUE
    /\ isLoading' = TRUE
    /\ error' = Null
    /\ LET trending == TrendingRequest(nextId, 1, Undefined)
           search   == IF searchQuery # <<>> /\ ~IsBlank(searchQuery)
                       THEN {SearchRequest(nextId + 1, searchQuery, 1, Undefined)}
                       ELSE {}
       IN  /\ inflight' = inflight \cup {trending} \cup search
           /\ nextId' = nextId + 1 + Cardinality(search)
           /\ last' = [op |-> "mount", issued |-> {trending} \cup search]
    /\ UNCHANGED <<trendingMovies, searchResults, favorites, searchQuery, currentPage,
                   totalPages, currentFilters, localStorage>>

----------------------------------------------------------------------------

\* The list handlers and their continuations.
ListStep ==
    \/ \E page \in 1..MaxPage, filters \in FilterArgs : GetTrendingMovies(page, filters)
    \/ \E query \in Queries, page \in 1..MaxPage, filters \in FilterArgs :
          SearchMovies(query, page, filters)
    \/ LoadMoreTrending
    \/ LoadMoreResults

\* A request settles.
Settle ==
    \/ \E req \in inflight, data \in ResponseBodies : TrendingResolved(req, data)
    \/ \E req \in inflight : TrendingRejected(req)
    \/ \E req \in inflight, data \in ResponseBodies : SearchResolved(req, data)
    \/ \E req \in inflight : SearchRejected(req)

\* The favourites handlers.
FavoritesStep ==
    \/ \E movie \in Movies : AddToFavorites(movie)
    \/ \E movieId \in MovieIds : RemoveFromFavorites(movieId)

\* The lookups are called.
LookupStep ==
    \/ \E movieId \in MovieIds : GetMovieDetails(movieId)
    \/ \E movieId \in MovieIds : GetMovieCredits(movieId)
    \/ \E movieId \in MovieIds : GetMovieVideos(movieId)

\* A lookup's request settles.
LookupSettle ==
    \/ \E req \in inflight, data \in DetailsPayloads : DetailsResolved(req, data)
    \/ \E req \in inflight : DetailsRejected(req)
    \/ \E req \in inflight, data \in CreditsPayloads : CreditsResolved(req, data)
    \/ \E req \in inflight : CreditsRejected(req)
    \/ \E req \in inflight, data \in VideosPayloads : VideosResolved(req, data)
    \/ \E req \in inflight : VideosRejected(req)

Next ==
    \/ Mount
    \/ ListStep
    \/ ResetSearch
    \/ FavoritesStep
    \/ Settle
    \/ LookupStep
    \/ LookupSettle

\* The store with everything its user may do.
Spec == Init /\ [][Next]_vars

\* The store under a user who browses and searches and leaves the favourites
\* alone, on a browser that holds no favourites.
InitLists == Init /\ ~HasItem(localStorage, "favorites")

NextLists ==
    \/ Mount
    \/ ListStep
    \/ ResetSearch
    \/ Settle

SpecLists == InitLists /\ [][NextLists]_vars

\* The store under a user who edits the favourites (and resets the search)
\* while the requests of the initialisation effect settle, on every browser
\* store.
NextFavorites ==
    \/ Mount
    \/ FavoritesStep
    \/ ResetSearch
    \/ Settle

SpecFavorites == Init /\ [][NextFavorites]_vars

\* SpecLists on a network that answers: a request in flight is eventually
\* answered or fails.
FairSpecLists == SpecLists /\ WF_vars(Settle)

\* The store under a detail page that calls the lookups while the requests
\* of the initialisation effect settle.
NextLookups ==
    \/ Mount
    \/ LookupStep
    \/ LookupSettle
    \/ Settle

SpecLookups == InitLists /\ [][NextLookups]_vars

----------------------------------------------------------------------------
(* Properties.  `last` tells which handler or continuation took a step, so  *)
(* a property of one operation is an action property guarded by last'.op.   *)

\* The results a response body carries, an absent field read as no results.
Carried(data) == IF "results" \in DOMAIN data THEN data.results ELSE <<>>

\* A string that is empty or holds whitespace only.
OnlyWhitespace(q) == \A i \in 1..Len(q) : q[i] \in Whitespace

\* The sequence the value under 'favorites' decodes to; no key, no favourites.
PersistedFavorites(store) ==
    IF HasItem(store, "favorites") THEN JSONparse(store["favorites"]) ELSE <<>>

\* The step issued no request and changed nothing of the store or the browser.
NothingDone ==
    /\ inflight' = inflight
    /\ nextId' = nextId
    /\ localStorage' = localStorage
    /\ UNCHANGED stateVars

\* C1: a successful response for requested page 1 makes the list of its track
\* exactly the response's results; one for a page other than 1 makes it the
\* previous list followed by the response's results, nothing removed and
\* nothing deduplicated.
C1_PageReplacesOrAppends ==
    [][last'.op = "resolved" =>
         LET req    == last'.req
             movies == Carried(last'.data)
         IN  /\ req.kind = "trending" =>
                  /\ req.page = 1 => trendingMovies' = movies
                  /\ req.page > 1 => trendingMovies' = trendingMovies \o movies
                  /\ searchResults' = searchResults
             /\ req.kind = "search" =>
                  /\ req.page = 1 => searchResults' = movies
                  /\ req.page > 1 => searchResults' = searchResults \o movies
                  /\ trendingMovies' = trendingMovies]_vars

\* C1 witness: a page-2 search response was appended to a list that already
\* held the same movies, and a page-1 trending response had filled the other.
C1_Witness ==
    /\ last.op = "resolved"
    /\ last.req.kind = "search"
    /\ last.req.page > 1
    /\ searchResults = <<MovieB, MovieA, MovieB, MovieA>>
    /\ trendingMovies = <<MovieB, MovieA>>

\* C2: a failing trending or search call changes none of trendingMovies,
\* searchResults, currentPage, totalPages, currentFilters, neither when it
\* starts nor when it fails; when it has failed, error is a non-empty message
\* and isLoading is false.
C2_FailureKeepsLists ==
    [][/\ last'.op \in {"mount", "getTrendingMovies", "searchMovies", "loadMoreTrending",
                        "loadMoreResults", "rejected"} =>
             UNCHANGED <<trendingMovies, searchResults, currentPage, totalPages,
                         currentFilters>>
       /\ last'.op = "rejected" =>
             /\ error' # Null
             /\ error' # ""
             /\ isLoading' = FALSE]_vars

\* C2 witness: a trending fetch failed after an earlier one had filled the list.
C2_Witness ==
    /\ last.op = "rejected"
    /\ last.req.kind = "trending"
    /\ trendingMovies = <<MovieB, MovieA>>
    /\ error = TrendingFailedMessage
    /\ ~isLoading

\* A request of `kind` for `query` at the page after the current one with the
\* recorded filters is handed to axios by the step.
IssuesNextPage(kind, query) ==
    \E r \in inflight' \ inflight :
        /\ inflight' = inflight \cup {r}
        /\ r.kind = kind
        /\ r.query = query
        /\ r.page = currentPage + 1
        /\ r.params.page = currentPage + 1
        /\ r.filters = currentFilters

\* C3 as stated: whenever currentPage < totalPages, loadMoreTrending issues the
\* trending request for the next page and loadMoreResults issues the search
\* request for the recorded query at the next page, an empty query included.
C3_AsStated ==
    [][currentPage < totalPages =>
         /\ last'.op = "loadMoreTrending" => IssuesNextPage("trending", <<>>)
         /\ last'.op = "loadMoreResults" => IssuesNextPage("search", searchQuery)]_vars

\* C3, amended: whenever currentPage < totalPages, loadMoreTrending issues the
\* trending request for the next page with the recorded filters;
\* loadMoreResults issues the search request for the recorded query at the
\* next page with the recorded filters when that query is not blank, and does
\* nothing when it is empty or whitespace only.
C3_LoadMoreIssuesNextPage ==
    [][currentPage < totalPages =>
         /\ last'.op = "loadMoreTrending" => IssuesNextPage("trending", <<>>)
         /\ last'.op = "loadMoreResults" =>
              IF OnlyWhitespace(searchQuery) THEN NothingDone
              ELSE IssuesNextPage("search", searchQuery)]_vars

\* C3 witness: loadMoreResults asked for page 2 of the recorded query with the
\* recorded, non-empty filters.
C3_Witness ==
    /\ last.op = "loadMoreResults"
    /\ \E r \in last.issued :
          /\ r \in inflight
          /\ r.kind = "search"
          /\ r.query = searchQuery
          /\ r.page = currentPage + 1
          /\ r.filters = SomeFilters
          /\ currentFilters = SomeFilters

\* C4: whenever currentPage >= totalPages, loadMoreTrending and
\* loadMoreResults issue no request and change no state.
C4_LoadMoreNoOpAtEnd ==
    [][(/\ last'.op \in {"loadMoreTrending", "loadMoreResults"}
        /\ currentPage >= totalPages) => NothingDone]_vars

\* C4 witness: loadMoreTrending returned at the last page of a loaded list.
C4_Witness ==
    /\ last.op = "loadMoreTrending"
    /\ last.issued = {}
    /\ currentPage >= totalPages
    /\ trendingMovies # <<>>

\* C5: searchMovies with an empty or whitespace-only query, whatever the page
\* and the filters, issues no request and changes no state.
C5_BlankSearchNoOp ==
    [][(/\ last'.op = "searchMovies"
        /\ OnlyWhitespace(last'.args[1])) => NothingDone]_vars

\* C5 witness: a search for two spaces returned while results of an earlier
\* search and its persisted query were in place.
C5_Witness ==
    /\ last.op = "searchMovies"
    /\ last.args[1] = <<" ", " ">>
    /\ last.issued = {}
    /\ searchResults # <<>>
    /\ HasItem(localStorage, "lastSearch")

\* C6: in every state the value under 'favorites' decodes to the in-memory
\* favourites, an absent key counting as the empty sequence.
C6_FavoritesWrittenThrough == PersistedFavorites(localStorage) = favorites

\* C6 witness: two favourites were added and persisted while a request of
\* the initialisation was still out.
C6_Witness ==
    /\ last.op = "addToFavorites"
    /\ ~last.present
    /\ Len(favorites) = 2
    /\ localStorage["favorites"] = JSONstringify(favorites)
    /\ inflight # {}

\* C7: addToFavorites appends a movie whose id is absent and changes nothing
\* when the id is present; a second call in a row for the same id changes
\* neither the favourites nor what is persisted.
C7_AddIdempotent ==
    [][last'.op = "addToFavorites" =>
         LET movie == last'.movie
         IN  /\ IF \E i \in 1..Len(favorites) : favorites[i].id = movie.id
                THEN favorites' = favorites /\ localStorage' = localStorage
                ELSE favorites' = favorites \o <<movie>>
             /\ (last.op = "addToFavorites" /\ last.movie.id = movie.id) =>
                  favorites' = favorites /\ localStorage' = localStorage]_vars

\* C7 witness: a movie whose id was already the only favourite was added again.
C7_Witness ==
    /\ last.op = "addToFavorites"
    /\ last.present
    /\ Len(favorites) = 1
    /\ favorites[1].id = last.movie.id
    /\ localStorage["favorites"] = JSONstringify(favorites)

\* No two entries of the list share an id.
UniqueIds(list) ==
    \A i, j \in 1..Len(list) : list[i].id = list[j].id => i = j

\* C8: in every reachable state, whatever the browser held under 'favorites'
\* at start-up, no two favourites share an id.
C8_FavoritesUnique == UniqueIds(favorites)

\* C9: removeFromFavorites(id) removes every entry with that id and keeps the
\* others in order; with no such entry the favourites and the decoded
\* persisted favourites keep their content; the value is written on every call.
C9_RemoveFilters ==
    [][last'.op = "removeFromFavorites" =>
         LET id == last'.movieId
         IN  /\ favorites' = SelectSeq(favorites, LAMBDA m : m.id # id)
             /\ (\A i \in 1..Len(favorites) : favorites[i].id # id) =>
                  /\ favorites' = favorites
                  /\ PersistedFavorites(localStorage') = PersistedFavorites(localStorage)
             /\ HasItem(localStorage', "favorites")
             /\ localStorage'["favorites"] = JSONstringify(favorites')]_vars

\* C9 witness: removing an id no favourite has wrote the unchanged list.
C9_Witness ==
    /\ last.op = "removeFromFavorites"
    /\ ~last.present
    /\ favorites # <<>>
    /\ localStorage["favorites"] = JSONstringify(favorites)

\* C10: right after resetSearch the search results and the query are empty,
\* currentPage is 1, the three filters are empty and no 'lastSearch' is
\* persisted; no other step removes the 'lastSearch' key.
C10_ResetClearsSearch ==
    [][/\ last'.op = "resetSearch" =>
             /\ searchResults' = <<>>
             /\ searchQuery' = <<>>
             /\ currentPage' = 1
             /\ currentFilters'.genre = ""
             /\ currentFilters'.year = ""
             /\ currentFilters'.minRating = ""
             /\ ~HasItem(localStorage', "lastSearch")
       /\ (HasItem(localStorage, "lastSearch") /\ ~HasItem(localStorage', "lastSearch")) =>
             last'.op = "resetSearch"]_vars

\* C10 witness: a reset after a response had set the counters: the search is
\* cleared, totalPages keeps the response's value.
C10_Witness ==
    /\ last.op = "resetSearch"
    /\ totalPages > 1
    /\ searchResults = <<>>
    /\ searchQuery = <<>>
    /\ currentPage = 1
    /\ ~HasItem(localStorage, "lastSearch")

----------------------------------------------------------------------------
\* The search request `req` is the last request the store has issued.
NoLaterRequest(req) == req.id = nextId - 1

\* C11 (as stated): a searchMovies call with a non-blank query sets searchQuery
\* to the query, and once the call has completed, with no search or reset
\* since it started, the query persisted under lastSearch is the searchQuery
\* in memory.
C11_LastSearchFollowsQuery ==
    [][/\ (last'.op \in {"searchMovies", "loadMoreResults"} /\ last'.issued # {}) =>
             searchQuery' = last'.args[1]
       /\ (/\ last'.op \in {"resolved", "rejected"}
           /\ last'.req.kind = "search"
           /\ NoLaterRequest(last'.req)
           /\ searchQuery = last'.req.query) =>
             /\ searchQuery' = last'.req.query
             /\ HasItem(localStorage', "lastSearch")
             /\ localStorage'["lastSearch"] = searchQuery']_vars

----------------------------------------------------------------------------
\* The value of a field of the filter argument; no argument reads as empty.
FilterField(filters, field) == IF filters = Undefined THEN "" ELSE filters[field]

\* The request carries the parameter exactly when the field is non-empty,
\* and then with the field's value.
SentWhenNonEmpty(req, param, field) ==
    /\ (param \in DOMAIN req.params) <=> (FilterField(req.filters, field) # "")
    /\ (param \in DOMAIN req.params) =>
          req.params[param] = FilterField(req.filters, field)

\* C12: every request of getTrendingMovies and searchMovies carries
\* with_genres, primary_release_year and vote_average_gte exactly when the
\* filter's genre, year and minRating are non-empty, with their values, and
\* never for an empty field or an absent filter; it carries the page, and a
\* search request also carries the query and include_adult = false.
C12_FilterParameters ==
    \A req \in {r \in inflight : r.kind \in {"trending", "search"}} :
        /\ SentWhenNonEmpty(req, "with_genres", "genre")
        /\ SentWhenNonEmpty(req, "primary_release_year", "year")
        /\ SentWhenNonEmpty(req, "vote_average_gte", "minRating")
        /\ req.params.page = req.page
        /\ req.kind = "search" =>
              /\ req.params.query = req.query
              /\ req.params.include_adult = FALSE
        /\ req.kind = "trending" =>
              /\ "query" \notin DOMAIN req.params
              /\ "include_adult" \notin DOMAIN req.params

\* C12 witness: a search request with a partly filled filter and a load-more
\* request with the all-empty filter are in flight together.
C12_Witness ==
    /\ \E req \in inflight :
          /\ req.kind = "search"
          /\ req.filters = SomeFilters
          /\ DOMAIN req.params =
                {"query", "page", "include_adult", "with_genres", "vote_average_gte"}
    /\ \E req \in inflight :
          /\ req.filters = EmptyFilters
          /\ DOMAIN req.params = {"page"}

----------------------------------------------------------------------------
\* The requests of one kind among those a step issued.
IssuedOfKind(issued, kind) == {req \in issued : req.kind = kind}

\* What both readings of C13 share: the effect runs only on the unmounted
\* store and issues exactly one trending request, page 1, no filter
\* parameter; a search it issues is for page 1 of the stored query, without
\* filter parameters; a request that settles leaves the other one in flight,
\* and a response is applied whatever became of the other request.
MountIssuesTrendingOnce ==
    /\ last'.op = "mount" =>
          /\ ~mounted
          /\ mounted'
          /\ \E req \in last'.issued :
                /\ IssuedOfKind(last'.issued, "trending") = {req}
                /\ req.page = 1
                /\ req.params = [page |-> 1]
                /\ req.url = "/trending/movie/day"
          /\ Cardinality(IssuedOfKind(last'.issued, "search")) <= 1
          /\ \A req \in IssuedOfKind(last'.issued, "search") :
                /\ req.query = localStorage["lastSearch"]
                /\ req.page = 1
                /\ req.params = [query |-> req.query, page |-> 1, include_adult |-> FALSE]
          /\ inflight' = inflight \cup last'.issued
    /\ last'.op \in {"resolved", "rejected"} =>
          inflight' = inflight \ {last'.req}
    /\ (last'.op = "resolved" /\ last'.req.kind = "trending" /\ last'.req.page = 1) =>
          trendingMovies' = ResultsOf(last'.data)
    /\ (last'.op = "resolved" /\ last'.req.kind = "search" /\ last'.req.page = 1) =>
          searchResults' = ResultsOf(last'.data)

\* C13 (as stated): the initialisation effect issues exactly one trending
\* request for page 1 without filter parameters, and one search request for
\* page 1 of the persisted lastSearch exactly when a persisted (non-empty)
\* query exists.
C13_AsStated ==
    [][/\ MountIssuesTrendingOnce
       /\ last'.op = "mount" =>
             ((IssuedOfKind(last'.issued, "search") # {}) <=>
                 (/\ HasItem(localStorage, "lastSearch")
                  /\ localStorage["lastSearch"] # <<>>))]_vars

\* C13 (amended): the initialisation effect runs once and issues exactly one
\* trending request for page 1 without filter parameters, and one search
\* request for page 1 of the persisted lastSearch exactly when a persisted
\* query exists and is not made of whitespace only; a request that fails or
\* is late does not keep the other from being applied.
C13_MountRequests ==
    [][/\ MountIssuesTrendingOnce
       /\ last'.op = "mount" =>
             ((IssuedOfKind(last'.issued, "search") # {}) <=>
                 (/\ HasItem(localStorage, "lastSearch")
                  /\ ~OnlyWhitespace(localStorage["lastSearch"])))]_vars

\* C13 witness: the stored search was run again on mount and its response is
\* applied although the trending request of the same effect has failed.
C13_Witness ==
    /\ last.op = "resolved"
    /\ last.req.kind = "search"
    /\ last.req.id = 2
    /\ last.req.query = <<"a">>
    /\ searchResults = <<MovieB, MovieA>>
    /\ trendingMovies = <<>>
    /\ error = TrendingFailedMessage
    /\ inflight = {}

----------------------------------------------------------------------------
LookupKinds ==
    [getMovieDetails |-> "details", getMovieCredits |-> "credits",
     getMovieVideos |-> "videos"]

\* C14: getMovieDetails, getMovieCredits and getMovieVideos each issue exactly
\* one request, for the given movie id, and neither the call nor its outcome
\* changes the store or the browser store; a failed lookup returns null,
\* null and the empty sequence respectively, a successful one returns the
\* response body, and getMovieVideos returns the body's results, or the empty
\* sequence when the body has no results field.
C14_LookupsLeaveStore ==
    [][/\ last'.op \in DOMAIN LookupKinds =>
             /\ \E req \in last'.issued :
                   /\ last'.issued = {req}
                   /\ req \notin inflight
                   /\ req.kind = LookupKinds[last'.op]
                   /\ req.movieId = last'.movieId
                   /\ req.url = LookupUrl(req.kind, last'.movieId)
             /\ inflight' = inflight \cup last'.issued
             /\ UNCHANGED <<stateVars, localStorage>>
       /\ last'.op \in {"lookupRejected", "lookupResolved"} =>
             inflight' = inflight \ {last'.req}
       /\ last'.op = "lookupRejected" =>
             /\ UNCHANGED <<stateVars, localStorage>>
             /\ last'.req.kind \in {"details", "credits"} => last'.returned = NullResult
             /\ last'.req.kind = "videos" => last'.returned = <<>>
       /\ last'.op = "lookupResolved" =>
             /\ UNCHANGED <<stateVars, localStorage>>
             /\ last'.req.kind \in {"details", "credits"} => last'.returned = last'.data
             /\ last'.req.kind = "videos" =>
                   last'.returned = IF "results" \in DOMAIN last'.data
                                    THEN last'.data.results
                                    ELSE <<>>]_vars

\* C14 witness: a details lookup failed after the trending list was loaded:
\* null went back to the caller and the store shows no error.
C14_Witness ==
    /\ last.op = "lookupRejected"
    /\ last.req.kind = "details"
    /\ last.returned = NullResult
    /\ trendingMovies = <<MovieB, MovieA>>
    /\ error = Null
    /\ ~isLoading

----------------------------------------------------------------------------
\* C15: when a successful response of a trending or search request is
\* applied, currentPage becomes the page the response reports, totalPages
\* the total it reports, and currentFilters the filter the call was given,
\* or the all-empty filter when it was given none.
C15_ResponseSetsCounters ==
    [][last'.op = "resolved" =>
          /\ currentPage' = last'.data.page
          /\ totalPages' = last'.data.total_pages
          /\ last'.req.filters = Undefined => currentFilters' = EmptyFilters
          /\ last'.req.filters # Undefined => currentFilters' = last'.req.filters]_vars

\* C15 witness: after trending page 1 of 2, loadMoreTrending asked for page 2
\* and its response is applied: page 2 of 2, the list is the two pages.
C15_Witness ==
    /\ last.op = "resolved"
    /\ last.req.kind = "trending"
    /\ last.req.page = 2
    /\ last.req.filters = EmptyFilters
    /\ last.data.page = 2
    /\ last.data.total_pages = MaxPage
    /\ currentPage = 2
    /\ totalPages = MaxPage
    /\ currentFilters = EmptyFilters
    /\ trendingMovies = <<MovieB, MovieA, MovieB, MovieA>>

----------------------------------------------------------------------------
\* A request of the kind for the page after the current one is in flight.
NextPagePending(kind) ==
    \E req \in inflight : req.kind = kind /\ req.page = currentPage + 1

\* The step issued one more request of the kind for the page after the
\* current one, next to the pending ones.
IssuesDuplicate(kind) ==
    \E req \in last'.issued :
        /\ last'.issued = {req}
        /\ req \notin inflight
        /\ req.kind = kind
        /\ req.page = currentPage + 1
        /\ req.filters = currentFilters
        /\ inflight' = inflight \cup {req}

\* C16: load-more calls do not exclude one another: a loadMoreTrending (or
\* loadMoreResults) call made while an earlier request for page
\* currentPage + 1 is still in flight reads the same currentPage and issues
\* a second request for page currentPage + 1; each response for a page after
\* the first is appended and sets currentPage to the page it reports, so the
\* same page is appended once per request.
C16_LoadMoreNotExclusive ==
    [][/\ (last'.op = "loadMoreTrending" /\ HasMore /\ NextPagePending("trending")) =>
             IssuesDuplicate("trending")
       /\ (/\ last'.op = "loadMoreResults"
           /\ HasMore
           /\ ~OnlyWhitespace(searchQuery)
           /\ NextPagePending("search")) =>
             IssuesDuplicate("search")
       /\ (last'.op = "resolved" /\ last'.req.kind = "trending" /\ last'.req.page > 1) =>
             /\ trendingMovies' = trendingMovies \o ResultsOf(last'.data)
             /\ currentPage' = last'.data.page
       /\ (last'.op = "resolved" /\ last'.req.kind = "search" /\ last'.req.page > 1) =>
             /\ searchResults' = searchResults \o ResultsOf(last'.data)
             /\ currentPage' = last'.data.page]_vars

\* C16 witness: two loadMoreTrending calls asked for page 2 before either
\* response; the first response is applied (currentPage 2, two pages in the
\* list), the second request is still in flight and its response appends
\* page 2 once more while currentPage stays 2.
C16_Witness ==
    /\ last.op = "resolved"
    /\ last.req.kind = "trending"
    /\ last.req.page = 2
    /\ last.req.filters = EmptyFilters
    /\ currentPage = 2
    /\ trendingMovies = <<MovieB, MovieA, MovieB, MovieA>>
    /\ \E req \in inflight :
          /\ req.kind = "trending"
          /\ req.page = 2
          /\ req.filters = EmptyFilters
          /\ ENABLED (/\ TrendingResolved(req, [results |-> <<MovieB, MovieA>>, page |-> 2,
                                               total_pages |-> 2])
                      /\ currentPage' = 2
                      /\ trendingMovies' =
                            <<MovieB, MovieA, MovieB, MovieA, MovieB, MovieA>>)

----------------------------------------------------------------------------
\* C17: nothing cancels a request: the response of a search is applied in
\* full (results, currentPage, totalPages, currentFilters, persisted
\* lastSearch) whether or not a later search has been issued or has
\* completed, and it leaves searchQuery as the later call set it.
C17_StaleResponseApplied ==
    [][(last'.op = "resolved" /\ last'.req.kind = "search") =>
          /\ searchResults' = ApplyPage(searchResults, last'.req.page,
                                        ResultsOf(last'.data))
          /\ currentPage' = last'.data.page
          /\ totalPages' = last'.data.total_pages
          /\ currentFilters' = FiltersOrEmpty(last'.req.filters)
          /\ HasItem(localStorage', "lastSearch")
          /\ localStorage'["lastSearch"] = last'.req.query
          /\ searchQuery' = searchQuery]_vars

\* C17 witness: the search for "a" (request 2, filter given) was followed by
\* the search for " b" (request 3), which completed first; then the response
\* for "a" arrived: results, counters, filter and lastSearch are those of
\* "a", searchQuery names " b".
C17_Witness ==
    /\ last.op = "resolved"
    /\ last.req.kind = "search"
    /\ last.req.id = 2
    /\ last.req.query = <<"a">>
    /\ last.req.filters = SomeFilters
    /\ nextId = 4
    /\ inflight = {}
    /\ searchQuery = <<" ", "b">>
    /\ searchResults = <<MovieB, MovieA>>
    /\ currentPage = last.data.page
    /\ totalPages = last.data.total_pages
    /\ currentFilters = SomeFilters
    /\ localStorage["lastSearch"] = <<"a">>

----------------------------------------------------------------------------
\* The counters both tracks share.
counters == <<currentPage, totalPages, currentFilters>>

\* An applied response of either track writes the three counters, and both
\* load-more handlers are guarded by them and continue from them, whichever
\* track wrote them.
SharedCounters ==
    /\ last'.op = "resolved" =>
          counters' = <<last'.data.page, last'.data.total_pages,
                        FiltersOrEmpty(last'.req.filters)>>
    /\ last'.op = "loadMoreTrending" =>
          IF currentPage < totalPages
          THEN \E req \in last'.issued :
                  /\ last'.issued = {req}
                  /\ req.kind = "trending"
                  /\ req.page = currentPage + 1
                  /\ req.filters = currentFilters
          ELSE last'.issued = {}
    /\ (last'.op = "loadMoreResults" /\ ~OnlyWhitespace(searchQuery)) =>
          IF currentPage < totalPages
          THEN \E req \in last'.issued :
                  /\ last'.issued = {req}
                  /\ req.kind = "search"
                  /\ req.page = currentPage + 1
                  /\ req.filters = currentFilters
          ELSE last'.issued = {}

----------------------------------------------------------------------------
\* C19: resetSearch cancels nothing: it leaves every request in flight, and
\* the response of a search issued before the reset, arriving while the
\* query is cleared, still fills searchResults, sets the counters and
\* currentFilters and writes lastSearch again, while searchQuery stays empty.
C19_ResetDoesNotCancel ==
    [][/\ last'.op = "resetSearch" => inflight' = inflight
       /\ (last'.op = "resolved" /\ last'.req.kind = "search" /\ searchQuery = <<>>) =>
             /\ searchResults' = IF last'.req.page = 1 THEN ResultsOf(last'.data)
                                 ELSE searchResults \o ResultsOf(last'.data)
             /\ currentPage' = last'.data.page
             /\ totalPages' = last'.data.total_pages
             /\ currentFilters' = FiltersOrEmpty(last'.req.filters)
             /\ localStorage' = SetItem(localStorage, "lastSearch", last'.req.query)
             /\ searchQuery' = <<>>]_vars

\* C19 witness: a filtered search for "a" was in flight when resetSearch
\* ran; its response has arrived: the results, the filter and lastSearch are
\* back, searchQuery is empty.
C19_Witness ==
    /\ last.op = "resolved"
    /\ last.req.kind = "search"
    /\ last.req.query = <<"a">>
    /\ last.req.filters = SomeFilters
    /\ searchQuery = <<>>
    /\ searchResults = <<MovieB, MovieA>>
    /\ currentPage = last.data.page
    /\ totalPages = last.data.total_pages
    /\ currentFilters = SomeFilters
    /\ HasItem(localStorage, "lastSearch")
    /\ localStorage["lastSearch"] = <<"a">>

----------------------------------------------------------------------------
\* The trending and search requests in flight.
Outstanding == {req \in inflight : req.kind \in {"trending", "search"}}

\* C20: isLoading is set when a trending call or a non-blank search call
\* starts and cleared when any such call completes; whenever no trending or
\* search request is outstanding isLoading is false, and on a network that
\* settles every request a store that is loading eventually is not.
C20_LoadingFlag ==
    /\ [][/\ (/\ last'.op \in {"mount", "getTrendingMovies", "searchMovies",
                               "loadMoreTrending", "loadMoreResults"}
              /\ last'.issued # {}) => isLoading'
          /\ last'.op \in {"resolved", "rejected"} => ~isLoading']_vars
    /\ [](Outstanding = {} => ~isLoading)
    /\ (isLoading ~> ~isLoading)

\* C20 witness: three calls overlapped and the last of them has failed:
\* nothing is outstanding and the flag is down.
C20_Witness ==
    /\ last.op = "rejected"
    /\ nextId = MaxRequests + 1
    /\ Outstanding = {}
    /\ ~isLoading
    /\ error # Null

====
